---------------------------- MODULE Spec2Model ----------------------------
(***************************************************************************)
(* A model of anno, the annotated hexdump utility.                         *)
(*                                                                         *)
(*   src/src/types.rs    ByteOrder, DataType (from_str, size, decode, name)*)
(*   src/src/main.rs     TypeSpec, build_annotations_from_types, main      *)
(*   src/src/display.rs  Annotation, Hexdump (add_annotation, dump,        *)
(*                       print_annotation)                                 *)
(*                                                                         *)
(* Text is a sequence of one-character strings.  The box-drawing glyphs    *)
(* are written with ASCII stand-ins (one character each, as the code       *)
(* counts them with chars().count()):                                      *)
(*      "L" for the opening corner, "=" for the horizontal bar,            *)
(*      "J" for the closing corner.                                        *)
(* Colors are disabled (ColorScheme.use_color = false), so the style       *)
(* functions return their argument; the style chosen for a byte is kept    *)
(* beside the text of the row.                                             *)
(***************************************************************************)
EXTENDS Integers, Sequences, FiniteSets, TLC

VARIABLES
    data,          \* the byte buffer (main: read_to_end; tests: the Vec behind the Cursor)
    type_specs,    \* args.types: the tokens, each a text
    byte_order,    \* the ByteOrder handed to the compiler
    annotations,   \* Hexdump.annotations
    result,        \* what build_annotations_from_types returned
    offset,        \* dump's local `offset`
    out,           \* the lines written to the writer so far
    data_type,     \* the DataType a caller of decode holds
    slice,         \* the bytes the caller hands to decode
    decoded,       \* what decode returned
    order_arg,     \* args.byte_order: the text given for the byte order
    main_out,      \* the lines written by the Hexdump of main.rs
    pc             \* position of the program

vars == <<data, type_specs, byte_order, annotations, result, offset, out,
          data_type, slice, decoded, order_arg, main_out, pc>>

-----------------------------------------------------------------------------
(* Bounds of the model *)

\* longest buffer of the two-annotation specification
MaxData == 17
\* longest annotation of the two-annotation specification
MaxLen == 2
\* longest token list handed to the compiler
MaxTokens == 3
\* longest buffer handed to the compiler
MaxBytes == 3
\* the longest buffer, the largest offset and the largest length when one
\* annotation is drawn over three rows
MaxWide == 33
\* the longest buffer and the largest offset when annotations of both kinds
\* are laid over each other
MaxStyled == 3
\* the most bytes a slice handed to decode has beyond the size of the type
MaxExtra == 1
\* the longest buffer handed over by a reader whose calls may return fewer
\* bytes than asked for
MaxRead == 17

(* Program constants *)

\* bytes per row: `let mut buffer = [0u8; 16]`, `for i in 0..16`
RowBytes == 16
\* the cell after which the extra gap column is written: `if i == 7`
GapCell == 7
\* `const LABEL_START_COLUMN: usize = 59`
LABEL_START_COLUMN == 59
\* `const LABEL_COLUMN: usize = 58` of print_annotation in main.rs
LABEL_COLUMN == 58

-----------------------------------------------------------------------------
(* Text helpers *)

Min(a, b) == IF a < b THEN a ELSE b

Blank == " "
CornerOpen == "L"
Bar == "="
CornerClose == "J"

Spaces(n) == [i \in 1..n |-> Blank]

HexDigit(d) == <<"0","1","2","3","4","5","6","7","8","9","a","b","c","d","e","f">>[d + 1]

\* format!("{:0w$x}", n): lower-case hexadecimal, zero-padded to at least w digits
RECURSIVE HexRaw(_)
HexRaw(n) == IF n < 16 THEN <<HexDigit(n)>> ELSE HexRaw(n \div 16) \o <<HexDigit(n % 16)>>

\* Hex without the zero padding: format!("{:x}", n)
HexUnpadded(n, w) == HexRaw(n)

Hex(n, w) ==
    LET raw == HexRaw(n)
    IN IF Len(raw) >= w THEN raw ELSE [i \in 1..(w - Len(raw)) |-> "0"] \o raw

-----------------------------------------------------------------------------
(* display.rs: Annotation *)

Annotation_new(o, l, label) ==
    [offset |-> o, length |-> l, label |-> label, kind |-> "Normal"]

Annotation_error(o, l, label) ==
    [offset |-> o, length |-> l, label |-> label, kind |-> "Error"]

-----------------------------------------------------------------------------
(* display.rs: Hexdump::print_annotation *)

start_in_line(a, line_offset) ==
    IF a.offset > line_offset THEN a.offset - line_offset ELSE 0

end_in_line(a, line_offset, line_length) ==
    IF a.offset + a.length < line_offset + line_length
    THEN a.offset + a.length - line_offset
    ELSE line_length

\* continues_from_prev that never sees an earlier row
continues_from_prev_never(a, line_offset) == FALSE

continues_from_prev(a, line_offset) == a.offset < line_offset

continues_to_next(a, line_offset, line_length) ==
    a.offset + a.length > line_offset + line_length

\* The subtractions on usize that go below zero: `ann_end - line_offset` when
\* the range ends before the row, and `end_in_line - 1`, which the loop body
\* computes in its first or its third test, when end_in_line is 0.  A build
\* with overflow checks panics there; a build without them wraps around.
Underflows(a, line_offset, line_length) ==
    end_in_line(a, line_offset, line_length) < 1

\* The text pushed for cell i by the if / else-if chain of the loop body, and
\* the value of in_annotation after it.  s = start_in_line, e = end_in_line.
\* dump calls print_annotation only for ranges that overlap the row, so e >= 1
\* and `end_in_line - 1` is computed on a positive number.
UnderlineCell(i, in_annotation, s, e, cfp, ctn) ==
    IF i = s THEN
        [text |-> IF i = e - 1
                  THEN (IF cfp THEN <<Bar, Bar, Bar>>
                        ELSE IF ctn THEN <<CornerOpen, Bar, Bar>>
                        ELSE <<CornerOpen, Bar, Bar>>)
                  ELSE (IF cfp THEN <<Bar, Bar, Bar>>
                        ELSE <<CornerOpen, Bar, Bar>>),
         in_annotation |-> TRUE, just_started |-> TRUE]
    ELSE IF i = e THEN
        [text |-> IF ~ctn THEN <<CornerClose, Blank>> ELSE <<Blank, Blank>>,
         in_annotation |-> FALSE, just_started |-> FALSE]
    ELSE IF i = e - 1 /\ in_annotation THEN
        [text |-> <<Bar, Bar, Bar>>,
         in_annotation |-> in_annotation, just_started |-> FALSE]
    ELSE IF in_annotation THEN
        [text |-> <<Bar, Bar, Bar>>,
         in_annotation |-> in_annotation, just_started |-> FALSE]
    ELSE
        [text |-> <<Blank, Blank, Blank>>,
         in_annotation |-> in_annotation, just_started |-> FALSE]

\* GapColumn without the just_started test
GapColumnAlways(i, cell) ==
    IF i = GapCell
    THEN (IF cell.in_annotation THEN <<Bar>> ELSE <<Blank>>)
    ELSE <<>>

\* GapColumn that leaves the column blank inside an annotation too
GapColumnBlank(i, cell) ==
    IF i = GapCell /\ ~cell.just_started THEN <<Blank>> ELSE <<>>

\* The extra column written after cell 7: `if i == 7 && !just_started`
GapColumn(i, cell) ==
    IF i = GapCell /\ ~cell.just_started
    THEN (IF cell.in_annotation THEN <<Bar>> ELSE <<Blank>>)
    ELSE <<>>

\* `for i in 0..16 { ... }` from cell i on, with the underline built so far
RECURSIVE UnderlineLoop(_, _, _, _, _, _, _)
UnderlineLoop(i, underline, in_annotation, s, e, cfp, ctn) ==
    IF i = RowBytes THEN underline
    ELSE LET cell == UnderlineCell(i, in_annotation, s, e, cfp, ctn)
         IN UnderlineLoop(i + 1, underline \o cell.text \o GapColumn(i, cell),
                          cell.in_annotation, s, e, cfp, ctn)

\* has_closing_at_16 that is never set: no corner pushed after the loop
has_closing_never(a, line_offset, line_length) == FALSE

has_closing_at_16(a, line_offset, line_length) ==
    /\ end_in_line(a, line_offset, line_length) = 16
    /\ ~continues_to_next(a, line_offset, line_length)

\* The underline string as written: the loop's result and the corner pushed
\* after the loop when the annotation closes behind cell 15.
Underline(a, line_offset, line_length) ==
    LET body == UnderlineLoop(0, Spaces(9), FALSE,
                              start_in_line(a, line_offset),
                              end_in_line(a, line_offset, line_length),
                              continues_from_prev(a, line_offset),
                              continues_to_next(a, line_offset, line_length))
    IN IF has_closing_at_16(a, line_offset, line_length)
       THEN body \o <<CornerClose>>
       ELSE body

target_pos(a, line_offset, line_length) ==
    IF has_closing_at_16(a, line_offset, line_length)
    THEN LABEL_START_COLUMN
    ELSE LABEL_START_COLUMN - 1

padding(a, line_offset, line_length) ==
    LET current_pos == Len(Underline(a, line_offset, line_length))
        target == target_pos(a, line_offset, line_length)
    IN IF current_pos < target THEN target - current_pos ELSE 0

\* ShowsLabel that holds on every row
ShowsLabelAlways(a, line_offset, line_length) == TRUE

\* `if ann_start >= line_offset && ann_start < line_end`
ShowsLabel(a, line_offset, line_length) ==
    a.offset >= line_offset /\ a.offset < line_offset + line_length

\* The line print_annotation writes for annotation number k under the row at
\* line_offset.  text is what reaches the writer; the other fields record the
\* call (which annotation, which row) and where the label text begins.
print_annotation(k, a, line_offset, line_length) ==
    LET underline == Underline(a, line_offset, line_length)
        padded == underline \o Spaces(padding(a, line_offset, line_length))
        labelled == ShowsLabel(a, line_offset, line_length)
    IN [what |-> "underline",
        text |-> IF labelled THEN padded \o <<Blank>> \o a.label ELSE padded,
        ann |-> k,
        line_offset |-> line_offset,
        line_length |-> line_length,
        underline |-> underline,
        labelled |-> labelled]

-----------------------------------------------------------------------------
(* display.rs: Hexdump::get_byte_annotation_kind and Hexdump::dump *)

\* `.iter().find(...)`: the kind of the first annotation, in the order added,
\* that covers the byte; "None" when there is none.
get_byte_annotation_kind(anns, byte_offset) ==
    LET hits == {k \in 1..Len(anns) :
                    /\ byte_offset >= anns[k].offset
                    /\ byte_offset < anns[k].offset + anns[k].length}
    IN IF hits = {} THEN "None"
       ELSE anns[CHOOSE k \in hits : \A j \in hits : k <= j].kind

\* The hex row: address, two blanks, sixteen cells, the gap after cell 7.
RECURSIVE HexCells(_, _, _, _)
HexCells(i, buf, line_offset, bytes_read) ==
    IF i = RowBytes THEN <<>>
    ELSE (IF i < bytes_read
          THEN Hex(buf[line_offset + i + 1], 2) \o <<Blank>>
          ELSE <<Blank, Blank, Blank>>)
         \o (IF i = GapCell THEN <<Blank>> ELSE <<>>)
         \o HexCells(i + 1, buf, line_offset, bytes_read)

HexRow(anns, buf, line_offset, bytes_read) ==
    [what |-> "row",
     text |-> Hex(line_offset, 8) \o <<Blank, Blank>>
              \o HexCells(0, buf, line_offset, bytes_read),
     line_offset |-> line_offset,
     line_length |-> bytes_read,
     styles |-> [i \in 1..bytes_read |->
                    get_byte_annotation_kind(anns, line_offset + i - 1)]]

\* OverlappingFrom without the filter: every annotation is kept
OverlappingFromAll(k, anns, line_offset, line_end) ==
    [j \in 1..(Len(anns) + 1 - k) |-> k + j - 1]

\* OverlappingFrom with `ann_end >= offset` in place of `ann_end > offset`
RECURSIVE OverlappingFromInclusive(_, _, _, _)
OverlappingFromInclusive(k, anns, line_offset, line_end) ==
    IF k > Len(anns) THEN <<>>
    ELSE (IF anns[k].offset < line_end /\ anns[k].offset + anns[k].length >= line_offset
          THEN <<k>> ELSE <<>>)
         \o OverlappingFromInclusive(k + 1, anns, line_offset, line_end)

\* `.filter(|a| a.offset < line_end && ann_end > offset)`, as the indices of
\* the annotations kept, in the order added
RECURSIVE OverlappingFrom(_, _, _, _)
OverlappingFrom(k, anns, line_offset, line_end) ==
    IF k > Len(anns) THEN <<>>
    ELSE (IF anns[k].offset < line_end /\ anns[k].offset + anns[k].length > line_offset
          THEN <<k>> ELSE <<>>)
         \o OverlappingFrom(k + 1, anns, line_offset, line_end)

\* an insertion that puts k before the annotations of the same offset
RECURSIVE InsertBeforeEqual(_, _, _)
InsertBeforeEqual(k, sorted, anns) ==
    IF sorted = <<>> THEN <<k>>
    ELSE IF anns[Head(sorted)].offset < anns[k].offset
         THEN <<Head(sorted)>> \o InsertBeforeEqual(k, Tail(sorted), anns)
         ELSE <<k>> \o sorted

\* sort_by_key(|a| a.offset): a stable sort, here by insertion
RECURSIVE InsertByOffset(_, _, _)
InsertByOffset(k, sorted, anns) ==
    IF sorted = <<>> THEN <<k>>
    ELSE IF anns[Head(sorted)].offset <= anns[k].offset
         THEN <<Head(sorted)>> \o InsertByOffset(k, Tail(sorted), anns)
         ELSE <<k>> \o sorted

RECURSIVE SortByOffsetFrom(_, _, _, _)
SortByOffsetFrom(i, ks, sorted, anns) ==
    IF i > Len(ks) THEN sorted
    ELSE SortByOffsetFrom(i + 1, ks, InsertByOffset(ks[i], sorted, anns), anns)

\* line_annotations without the sort
line_annotations_unsorted(anns, line_offset, bytes_read) ==
    OverlappingFrom(1, anns, line_offset, line_offset + bytes_read)

\* The annotations drawn under the row, in drawing order
line_annotations(anns, line_offset, bytes_read) ==
    SortByOffsetFrom(1, OverlappingFrom(1, anns, line_offset, line_offset + bytes_read),
                     <<>>, anns)

\* annotation k is one of those drawn under the row
InRow(k, anns, line_offset, bytes_read) ==
    \E j \in 1..Len(line_annotations(anns, line_offset, bytes_read)) :
        line_annotations(anns, line_offset, bytes_read)[j] = k

\* reader.read(&mut buffer) on a Cursor over the data: the next 16 bytes, or
\* the bytes that are left
ReadLength(buf, at) == Min(RowBytes, Len(buf) - at)

\* One pass of dump's loop: the hex row and the underline lines below it
RowLines(anns, buf, line_offset, bytes_read) ==
    LET ks == line_annotations(anns, line_offset, bytes_read)
    IN <<HexRow(anns, buf, line_offset, bytes_read)>>
       \o [j \in 1..Len(ks) |-> print_annotation(ks[j], anns[ks[j]], line_offset, bytes_read)]

\* `writeln!(writer, "{}", addr(format!("{:08x}", offset)))`
EndLine(at) == [what |-> "end", text |-> Hex(at, 8), line_offset |-> at]

-----------------------------------------------------------------------------
(* types.rs: DataType *)

UpperCase == <<"A","B","C","D","E","F","G","H","I","J","K","L","M",
               "N","O","P","Q","R","S","T","U","V","W","X","Y","Z">>
LowerCase == <<"a","b","c","d","e","f","g","h","i","j","k","l","m",
               "n","o","p","q","r","s","t","u","v","w","x","y","z">>

to_lowercase(s) ==
    [i \in 1..Len(s) |->
        IF \E k \in 1..26 : UpperCase[k] = s[i]
        THEN LowerCase[CHOOSE k \in 1..26 : UpperCase[k] = s[i]]
        ELSE s[i]]

\* DataType::from_str with a default arm that yields U8
DataType_from_str_default_u8(s) ==
    [ok |-> TRUE, data_type |-> "U8"]

\* Ok(DataType) or Err("Unknown type: ...")
DataType_from_str(s) ==
    LET l == to_lowercase(s)
    IN IF l = <<"u","8">> THEN [ok |-> TRUE, data_type |-> "U8"]
       ELSE IF l = <<"u","1","6">> THEN [ok |-> TRUE, data_type |-> "U16"]
       ELSE IF l = <<"u","3","2">> THEN [ok |-> TRUE, data_type |-> "U32"]
       ELSE IF l = <<"u","6","4">> THEN [ok |-> TRUE, data_type |-> "U64"]
       ELSE IF l = <<"i","8">> THEN [ok |-> TRUE, data_type |-> "I8"]
       ELSE IF l = <<"i","1","6">> THEN [ok |-> TRUE, data_type |-> "I16"]
       ELSE IF l = <<"i","3","2">> THEN [ok |-> TRUE, data_type |-> "I32"]
       ELSE IF l = <<"i","6","4">> THEN [ok |-> TRUE, data_type |-> "I64"]
       ELSE IF l = <<"f","3","2">> \/ l = <<"f","l","o","a","t">>
            THEN [ok |-> TRUE, data_type |-> "F32"]
       ELSE IF l = <<"f","6","4">> \/ l = <<"d","o","u","b","l","e">>
            THEN [ok |-> TRUE, data_type |-> "F64"]
       ELSE [ok |-> FALSE, data_type |-> "none"]

size(t) ==
    CASE t \in {"U8", "I8"} -> 1
      [] t \in {"U16", "I16"} -> 2
      [] t \in {"U32", "I32", "F32"} -> 4
      [] t \in {"U64", "I64", "F64"} -> 8

name(t) ==
    CASE t = "U8" -> <<"u","8">>
      [] t = "U16" -> <<"u","1","6">>
      [] t = "U32" -> <<"u","3","2">>
      [] t = "U64" -> <<"u","6","4">>
      [] t = "I8" -> <<"i","8">>
      [] t = "I16" -> <<"i","1","6">>
      [] t = "I32" -> <<"i","3","2">>
      [] t = "I64" -> <<"i","6","4">>
      [] t = "F32" -> <<"f","3","2">>
      [] t = "F64" -> <<"f","6","4">>

IsSigned(t) == t \in {"I8", "I16", "I32", "I64"}
IsFloat(t) == t \in {"F32", "F64"}

\* from_le_bytes that takes the first byte as the most significant
from_le_bytes_unreversed(bytes, n) == [i \in 1..n |-> bytes[i]]

\* uN::from_le_bytes / from_be_bytes of the first n bytes: the bytes of the
\* value, most significant first.  (The value itself does not fit the
\* integers of the model checker for 32 and 64 bits, so it is kept as bytes.)
from_le_bytes(bytes, n) == [i \in 1..n |-> bytes[n + 1 - i]]
from_be_bytes(bytes, n) == [i \in 1..n |-> bytes[i]]

\* digits * 256 + carry, on decimal digits written least significant first
RECURSIVE MulAdd256(_, _)
MulAdd256(digits, carry) ==
    IF digits = <<>>
    THEN (IF carry = 0 THEN <<>> ELSE <<carry % 10>> \o MulAdd256(<<>>, carry \div 10))
    ELSE LET v == Head(digits) * 256 + carry
         IN <<v % 10>> \o MulAdd256(Tail(digits), v \div 10)

\* the decimal digits (least significant first) of the number whose bytes,
\* most significant first, are msb[1..k]
RECURSIVE DecimalDigits(_, _)
DecimalDigits(msb, k) ==
    IF k = 0 THEN <<>> ELSE MulAdd256(DecimalDigits(msb, k - 1), msb[k])

\* to_string() of the unsigned number with these bytes
UnsignedText(msb) ==
    LET d == DecimalDigits(msb, Len(msb))
    IN IF d = <<>> THEN <<"0">> ELSE [i \in 1..Len(d) |-> HexDigit(d[Len(d) + 1 - i])]

\* the bytes of 2^(8n) - v: every byte inverted, then one added
RECURSIVE AddOne(_, _)
AddOne(msb, k) ==
    IF k = 0 THEN msb
    ELSE IF msb[k] = 255 THEN AddOne([msb EXCEPT ![k] = 0], k - 1)
    ELSE [msb EXCEPT ![k] = msb[k] + 1]

Negated(msb) == AddOne([i \in 1..Len(msb) |-> 255 - msb[i]], Len(msb))

\* SignedText that reads the bytes as an unsigned number
SignedTextUnsigned(msb) == UnsignedText(msb)

\* to_string() of the two's complement number with these bytes
SignedText(msb) ==
    IF msb[1] >= 128 THEN <<"-">> \o UnsignedText(Negated(msb)) ELSE UnsignedText(msb)

RECURSIVE HexBytes(_)
HexBytes(msb) == IF msb = <<>> THEN <<>> ELSE Hex(Head(msb), 2) \o HexBytes(Tail(msb))

\* decode without the check of the length of the slice
decode_unchecked(t, bytes, order) == [ok |-> TRUE, text |-> <<"0">>]

\* Ok(text) or Err("Not enough bytes").  The text of a float is not computed:
\* it is kept as the mark "~" and the bits read, in hexadecimal.
decode(t, bytes, order) ==
    IF Len(bytes) < size(t) THEN [ok |-> FALSE, text |-> <<>>]
    ELSE LET n == size(t)
             bits == IF order = "Little" THEN from_le_bytes(bytes, n)
                     ELSE from_be_bytes(bytes, n)
         IN [ok |-> TRUE,
             text |-> IF IsFloat(t) THEN <<"~">> \o HexBytes(bits)
                      ELSE IF IsSigned(t) THEN SignedText(bits)
                      ELSE UnsignedText(bits)]

-----------------------------------------------------------------------------
(* main.rs: TypeSpec *)

\* s.find(':'): the index (from 0) of the first colon, or -1
RECURSIVE FindColonFrom(_, _)
FindColonFrom(s, i) ==
    IF i > Len(s) THEN -1
    ELSE IF s[i] = ":" THEN i - 1
    ELSE FindColonFrom(s, i + 1)

\* s.rfind(':'): the index (from 0) of the last colon, or -1
find_last_colon(s) ==
    IF \E i \in 1..Len(s) : s[i] = ":"
    THEN (CHOOSE i \in 1..Len(s) :
              s[i] = ":" /\ \A j \in (i + 1)..Len(s) : s[j] # ":") - 1
    ELSE -1

find_colon(s) == FindColonFrom(s, 1)

\* Ok(TypeSpec { data_type, field_name }) or Err
TypeSpec_from_str(s) ==
    LET colon_pos == find_colon(s)
    IN IF colon_pos >= 0 THEN
           LET type_part == SubSeq(s, 1, colon_pos)
               field_part == SubSeq(s, colon_pos + 2, Len(s))
               parsed == DataType_from_str(type_part)
           IN IF field_part = <<>>
              THEN [ok |-> FALSE, error |-> "FieldNameEmpty",
                    data_type |-> "none", has_field |-> FALSE, field_name |-> <<>>]
              ELSE IF ~parsed.ok
              THEN [ok |-> FALSE, error |-> "UnknownType",
                    data_type |-> "none", has_field |-> FALSE, field_name |-> <<>>]
              ELSE [ok |-> TRUE, error |-> "none",
                    data_type |-> parsed.data_type, has_field |-> TRUE,
                    field_name |-> field_part]
       ELSE
           LET parsed == DataType_from_str(s)
           IN IF ~parsed.ok
              THEN [ok |-> FALSE, error |-> "UnknownType",
                    data_type |-> "none", has_field |-> FALSE, field_name |-> <<>>]
              ELSE [ok |-> TRUE, error |-> "none",
                    data_type |-> parsed.data_type, has_field |-> FALSE,
                    field_name |-> <<>>]

display_name(ts) == IF ts.has_field THEN ts.field_name ELSE name(ts.data_type)

-----------------------------------------------------------------------------
(* main.rs: build_annotations_from_types *)

\* The returned Result: Ok(annotations), or Err(error) and no annotation.
\* error.what is "UnknownType" or "FieldNameEmpty" (from TypeSpec::from_str),
\* "NotEnoughData" (the length check) or "NotEnoughBytes" (from decode); the
\* other fields are what the message of the error gives.  decodes lists the
\* calls of decode the walk made: the type and the range data[from..to] of
\* the slice handed over.
NoError == [what |-> "none", token |-> <<>>, offset |-> 0, needs |-> 0, available |-> 0]

Ok(anns) == [status |-> "Ok", annotations |-> anns, error |-> NoError, decodes |-> <<>>]
Err(e) == [status |-> "Err", annotations |-> <<>>, error |-> e, decodes |-> <<>>]

\* The loop from token number k on, with `annotations` and `offset` as they
\* are when the loop reaches it.
RECURSIVE build_from(_, _, _, _, _, _, _)
build_from(k, anns, at, specs, order, buf, calls) ==
    IF k > Len(specs) THEN [Ok(anns) EXCEPT !.decodes = calls]
    ELSE LET type_spec == TypeSpec_from_str(specs[k])
         IN IF ~type_spec.ok
            THEN [Err([what |-> type_spec.error, token |-> specs[k],
                       offset |-> at, needs |-> 0, available |-> 0])
                  EXCEPT !.decodes = calls]
            ELSE LET sz == size(type_spec.data_type)
                 IN IF at + sz > Len(buf)
                    THEN [Err([what |-> "NotEnoughData",
                               token |-> name(type_spec.data_type),
                               offset |-> at, needs |-> sz,
                               available |-> Len(buf) - at])
                          EXCEPT !.decodes = calls]
                    ELSE LET value == decode(type_spec.data_type,
                                             SubSeq(buf, at + 1, at + sz), order)
                             called == Append(calls,
                                           [data_type |-> type_spec.data_type,
                                            from |-> at, to |-> at + sz])
                         IN IF ~value.ok
                            THEN [Err([what |-> "NotEnoughBytes", token |-> specs[k],
                                       offset |-> at, needs |-> sz,
                                       available |-> Len(buf) - at])
                                  EXCEPT !.decodes = called]
                            ELSE build_from(k + 1,
                                     Append(anns,
                                         Annotation_new(at, sz,
                                             display_name(type_spec) \o <<":", Blank>>
                                                 \o value.text)),
                                     at + sz, specs, order, buf, called)

\* build_annotations_from_types that parses every token before the walk
build_parse_first(specs, order, buf) ==
    IF \E k \in 1..Len(specs) : ~TypeSpec_from_str(specs[k]).ok
    THEN LET m == CHOOSE k \in 1..Len(specs) :
                     /\ ~TypeSpec_from_str(specs[k]).ok
                     /\ \A j \in 1..(k - 1) : TypeSpec_from_str(specs[j]).ok
         IN Err([what |-> TypeSpec_from_str(specs[m]).error, token |-> specs[m],
                 offset |-> 0, needs |-> 0, available |-> 0])
    ELSE build_from(1, <<>>, 0, specs, order, buf, <<>>)

\* build_annotations_from_types that pushes every annotation at offset 0
build_without_advance(specs, order, buf) ==
    LET r == build_from(1, <<>>, 0, specs, order, buf, <<>>)
    IN [r EXCEPT !.annotations =
           [i \in 1..Len(r.annotations) |-> [r.annotations[i] EXCEPT !.offset = 0]]]

build_annotations_from_types(specs, order, buf) ==
    build_from(1, <<>>, 0, specs, order, buf, <<>>)

-----------------------------------------------------------------------------
(* Inputs *)

\* A buffer of n bytes.  The bytes differ from their neighbours and some have
\* the top bit set.
BytePattern == <<1, 255, 2, 128, 3, 127, 4, 254>>
Buffer(n) == [i \in 1..n |-> BytePattern[((i - 1) % Len(BytePattern)) + 1]]

LabelOf(k) == <<<<"a">>, <<"b">>, <<"c">>>>[k]

\* no call of decode made yet
NoDecoded == [ok |-> FALSE, text |-> <<>>]

NoResult == [status |-> "none", annotations |-> <<>>, error |-> NoError, decodes |-> <<>>]

\* The tokens handed to the compiler: scalars with and without a field name,
\* in either case of letters, and tokens that start with a dot.
Tokens ==
    { <<"u","8">>, <<"I","1","6">>, <<"u","3","2",":","n">>,
      <<"u","8",":","a",":","b">>, <<"u","1","6",":">>, <<"z","z">>,
      <<".","8">>, <<".","0">>, <<".","1","2">>, <<".","a","b">> }

RECURSIVE TokenLists(_)
TokenLists(n) ==
    IF n = 0 THEN {<<>>}
    ELSE LET shorter == TokenLists(n - 1)
         IN shorter \cup {Append(l, t) : l \in {x \in shorter : Len(x) = n - 1}, t \in Tokens}

-----------------------------------------------------------------------------
(* Actions of the renderer: a caller adds annotations, then dumps *)

\* hexdump.add_annotation(Annotation::new(o, l, label))
add_annotation(a) ==
    /\ pc = "ready"
    /\ annotations' = Append(annotations, a)
    /\ UNCHANGED <<data, type_specs, byte_order, result, offset, out,
                   data_type, slice, decoded, order_arg, main_out, pc>>

\* hexdump.dump(&mut Cursor::new(&data), &mut output): `let mut offset = 0`
dump_begin ==
    /\ pc = "ready"
    /\ offset' = 0
    /\ pc' = "dump"
    /\ UNCHANGED <<data, type_specs, byte_order, annotations, result, out,
                   data_type, slice, decoded, order_arg, main_out>>

\* one pass of the loop with bytes_read > 0.  The pass goes on to the next
\* read; where a subtraction of print_annotation goes below zero it may
\* instead end in a panic.
dump_row ==
    /\ pc = "dump"
    /\ ReadLength(data, offset) > 0
    /\ LET bytes_read == ReadLength(data, offset)
       IN /\ out' = out \o RowLines(annotations, data, offset, bytes_read)
          /\ offset' = offset + bytes_read
          /\ pc' \in IF \E k \in 1..Len(annotations) :
                          /\ InRow(k, annotations, offset, bytes_read)
                          /\ Underflows(annotations[k], offset, bytes_read)
                     THEN {"dump", "panicked"}
                     ELSE {"dump"}
    /\ UNCHANGED <<data, type_specs, byte_order, annotations, result,
                   data_type, slice, decoded, order_arg, main_out>>

\* bytes_read == 0: break, write the end address, return Ok
dump_end ==
    /\ pc = "dump"
    /\ ReadLength(data, offset) = 0
    /\ out' = Append(out, EndLine(offset))
    /\ pc' = "done"
    /\ UNCHANGED <<data, type_specs, byte_order, annotations, result, offset,
                   data_type, slice, decoded, order_arg, main_out>>

-----------------------------------------------------------------------------
(* Actions of main.rs: main *)

\* `if !args.types.is_empty()`: compile; on Ok add every annotation to the
\* Hexdump and go on to the dump, on Err return the error (the `?`).
main_build ==
    /\ pc = "main"
    /\ type_specs # <<>>
    /\ LET r == build_annotations_from_types(type_specs, byte_order, data)
       IN /\ result' = r
          /\ IF r.status = "Ok"
             THEN annotations' = annotations \o r.annotations /\ pc' = "ready"
             ELSE annotations' = annotations /\ pc' = "failed"
    /\ UNCHANGED <<data, type_specs, byte_order, offset, out,
                   data_type, slice, decoded, order_arg, main_out>>

\* no types given: a plain dump
main_plain ==
    /\ pc = "main"
    /\ type_specs = <<>>
    /\ pc' = "ready"
    /\ UNCHANGED <<data, type_specs, byte_order, annotations, result, offset, out,
                   data_type, slice, decoded, order_arg, main_out>>

-----------------------------------------------------------------------------
(* Two annotations over at most two rows *)

PairAnnotations ==
    {[offset |-> o, length |-> l] : o \in 0..MaxData, l \in 0..MaxLen}

InitPair ==
    /\ data \in {Buffer(n) : n \in 0..MaxData}
    /\ type_specs = <<>>
    /\ byte_order = "Little"
    /\ annotations = <<>>
    /\ result = NoResult
    /\ offset = 0
    /\ out = <<>>
    /\ data_type = "none"
    /\ slice = <<>>
    /\ decoded = NoDecoded
    /\ order_arg = <<>>
    /\ main_out = <<>>
    /\ pc = "ready"

AddPair ==
    /\ Len(annotations) < 2
    /\ \E p \in PairAnnotations :
          add_annotation(Annotation_new(p.offset, p.length, LabelOf(Len(annotations) + 1)))

NextPair == AddPair \/ dump_begin \/ dump_row \/ dump_end

SpecPair == InitPair /\ [][NextPair]_vars

-----------------------------------------------------------------------------
(* One annotation over at most three rows *)

WideAnnotations ==
    {[offset |-> o, length |-> l] : o \in 0..MaxWide, l \in 0..MaxWide}

InitWide ==
    /\ data \in {Buffer(n) : n \in 0..MaxWide}
    /\ type_specs = <<>>
    /\ byte_order = "Little"
    /\ annotations = <<>>
    /\ result = NoResult
    /\ offset = 0
    /\ out = <<>>
    /\ data_type = "none"
    /\ slice = <<>>
    /\ decoded = NoDecoded
    /\ order_arg = <<>>
    /\ main_out = <<>>
    /\ pc = "ready"

AddWide ==
    /\ Len(annotations) < 1
    /\ \E p \in WideAnnotations :
          add_annotation(Annotation_new(p.offset, p.length, LabelOf(1)))

NextWide == AddWide \/ dump_begin \/ dump_row \/ dump_end

SpecWide == InitWide /\ [][NextWide]_vars

-----------------------------------------------------------------------------
(* Two annotations of either kind over a short buffer *)

StyledAnnotations ==
    {[offset |-> o, length |-> l, kind |-> k] :
        o \in 0..MaxStyled, l \in 0..MaxLen, k \in {"Normal", "Error"}}

InitStyled ==
    /\ data \in {Buffer(n) : n \in 0..MaxStyled}
    /\ type_specs = <<>>
    /\ byte_order = "Little"
    /\ annotations = <<>>
    /\ result = NoResult
    /\ offset = 0
    /\ out = <<>>
    /\ data_type = "none"
    /\ slice = <<>>
    /\ decoded = NoDecoded
    /\ order_arg = <<>>
    /\ main_out = <<>>
    /\ pc = "ready"

AddStyled ==
    /\ Len(annotations) < 2
    /\ \E p \in StyledAnnotations :
          add_annotation(IF p.kind = "Normal"
                         THEN Annotation_new(p.offset, p.length, LabelOf(Len(annotations) + 1))
                         ELSE Annotation_error(p.offset, p.length, LabelOf(Len(annotations) + 1)))

NextStyled == AddStyled \/ dump_begin \/ dump_row \/ dump_end

SpecStyled == InitStyled /\ [][NextStyled]_vars

-----------------------------------------------------------------------------
(* The program: tokens and a buffer, compiled and dumped *)

InitMain ==
    /\ data \in {Buffer(n) : n \in 0..MaxBytes}
    /\ type_specs \in TokenLists(MaxTokens)
    /\ byte_order \in {"Little", "Big"}
    /\ annotations = <<>>
    /\ result = NoResult
    /\ offset = 0
    /\ out = <<>>
    /\ data_type = "none"
    /\ slice = <<>>
    /\ decoded = NoDecoded
    /\ order_arg = <<>>
    /\ main_out = <<>>
    /\ pc = "main"

NextMain == main_build \/ main_plain \/ dump_begin \/ dump_row \/ dump_end

SpecMain == InitMain /\ [][NextMain]_vars

-----------------------------------------------------------------------------
(* A caller of decode: an integer type, a byte order and a slice of bytes *)

\* the bytes of the slices: zero, the sign bit alone, all bits
ByteValues == {0, 128, 255}

\* the bytes that follow the first size() bytes of a slice
TailValues == {255}

IntegerTypes == {"U8", "U16", "U32", "U64", "I8", "I16", "I32", "I64"}

InitDecode ==
    /\ data = <<>>
    /\ type_specs = <<>>
    /\ byte_order \in {"Little", "Big"}
    /\ annotations = <<>>
    /\ result = NoResult
    /\ offset = 0
    /\ out = <<>>
    /\ data_type \in IntegerTypes
    /\ slice = <<>>
    /\ decoded = NoDecoded
    /\ order_arg = <<>>
    /\ main_out = <<>>
    /\ pc = "slice"

\* the caller makes its slice one byte longer
push_byte ==
    /\ pc = "slice"
    /\ Len(slice) < size(data_type) + MaxExtra
    /\ \E b \in (IF Len(slice) < size(data_type) THEN ByteValues ELSE TailValues) :
          slice' = Append(slice, b)
    /\ UNCHANGED <<data, type_specs, byte_order, annotations, result, offset, out,
                   data_type, decoded, order_arg, main_out, pc>>

\* data_type.decode(&slice, byte_order)
decode_call ==
    /\ pc = "slice"
    /\ decoded' = decode(data_type, slice, byte_order)
    /\ pc' = "decoded"
    /\ UNCHANGED <<data, type_specs, byte_order, annotations, result, offset, out,
                   data_type, slice, order_arg, main_out>>

NextDecode == push_byte \/ decode_call

SpecDecode == InitDecode /\ [][NextDecode]_vars

-----------------------------------------------------------------------------
(* What the claims speak of *)

UnderlineLines == {i \in 1..Len(out) : out[i].what = "underline"}
LabelLines == {i \in UnderlineLines : out[i].labelled}

\* the number of characters written before the label on a labelled line
LabelColumn(i) == Len(out[i].text) - Len(annotations[out[i].ann].label)

\* the line without the label and the blank before it
Drawn(i) ==
    IF out[i].labelled
    THEN SubSeq(out[i].text, 1, LabelColumn(i) - 1)
    ELSE out[i].text

\* a text without the blanks at its two ends
RECURSIVE TrimLeft(_)
TrimLeft(t) == IF t # <<>> /\ Head(t) = Blank THEN TrimLeft(Tail(t)) ELSE t

RECURSIVE TrimRight(_)
TrimRight(t) ==
    IF t # <<>> /\ t[Len(t)] = Blank THEN TrimRight(SubSeq(t, 1, Len(t) - 1)) ELSE t

Trim(t) == TrimLeft(TrimRight(t))

\* the in-row position of the first byte of the annotation drawn on line i
StartCell(i) == annotations[out[i].ann].offset - out[i].line_offset

-----------------------------------------------------------------------------
(* C1 *)

\* C1: in one dump every label begins at the same character column: the number
\* of characters before the label is the same on all labelled underline lines.
C1_LabelsAligned ==
    \A i \in LabelLines : \A j \in LabelLines : LabelColumn(i) = LabelColumn(j)

-----------------------------------------------------------------------------
(* C9 *)

\* C9: output is ordered by increasing row and, under one row, by increasing
\* annotation offset; so the labelled lines appear top to bottom in
\* non-decreasing order of annotation offset, in whatever order the
\* annotations were added.
C9_OrderedByRowThenOffset ==
    /\ \A i \in 1..Len(out) : \A j \in 1..Len(out) :
          (i < j /\ out[j].what # "end") => out[i].line_offset <= out[j].line_offset
    /\ \A i \in UnderlineLines : \A j \in UnderlineLines :
          (i < j /\ out[i].line_offset = out[j].line_offset)
              => annotations[out[i].ann].offset <= annotations[out[j].ann].offset
    /\ \A i \in LabelLines : \A j \in LabelLines :
          i < j => annotations[out[i].ann].offset <= annotations[out[j].ann].offset

\* two labels under one row, of annotations added in decreasing order of offset
C9_Witness ==
    /\ pc = "done"
    /\ Len(annotations) = 2
    /\ annotations[1].offset > annotations[2].offset
    /\ \E i \in LabelLines : \E j \in LabelLines :
          /\ i < j
          /\ out[i].ann = 2 /\ out[j].ann = 1
          /\ out[i].line_offset = out[j].line_offset

-----------------------------------------------------------------------------
(* C10 *)

\* C10: a single-byte annotation inside the buffer is drawn as exactly the four
\* glyphs corner, bar, bar, corner with nothing between them, at every in-row
\* position 0..15 of the byte.
C10_SingleByteGlyphs ==
    \A i \in UnderlineLines :
        annotations[out[i].ann].length = 1
            => Trim(Drawn(i)) = <<CornerOpen, Bar, Bar, CornerClose>>

\* single bytes drawn at position 7 (before the gap) and at position 15 (the
\* last cell of a full row)
C10_Witness ==
    /\ pc = "done"
    /\ Len(annotations) = 2
    /\ annotations[1].length = 1 /\ annotations[2].length = 1
    /\ \E i \in UnderlineLines : \E j \in UnderlineLines :
          /\ out[i].ann = 1 /\ StartCell(i) = GapCell
          /\ out[j].ann = 2 /\ out[j].line_length = RowBytes /\ StartCell(j) = 15

-----------------------------------------------------------------------------
(* The token grammar the claims speak of *)

IsDigit(c) == c \in {"0","1","2","3","4","5","6","7","8","9"}

DigitValue(c) == CHOOSE d \in 0..9 : HexDigit(d) = c

RECURSIVE NumberOf(_, _)
NumberOf(t, k) == IF k = 0 THEN 0 ELSE NumberOf(t, k - 1) * 10 + DigitValue(t[k])

DotToken(t) == t # <<>> /\ t[1] = "."

\* the bit count of a token `.N`
BitCount(t) == NumberOf(Tail(t), Len(t) - 1)

ValidSkip(t) ==
    /\ DotToken(t)
    /\ Len(t) >= 2
    /\ \A k \in 2..Len(t) : IsDigit(t[k])
    /\ BitCount(t) > 0
    /\ BitCount(t) % 8 = 0

ValidScalar(t) == ~DotToken(t) /\ TypeSpec_from_str(t).ok

WellFormed(t) == ValidSkip(t) \/ ValidScalar(t)

\* the bytes a well-formed token moves the cursor by
Width(t) ==
    IF ValidSkip(t) THEN BitCount(t) \div 8 ELSE size(TypeSpec_from_str(t).data_type)

\* the cursor when the walk reaches token k, all tokens before it well-formed
RECURSIVE CursorBefore(_)
CursorBefore(k) == IF k = 1 THEN 0 ELSE CursorBefore(k - 1) + Width(type_specs[k - 1])

\* every token before token k is well-formed and has its bytes
PrefixFits(k) ==
    \A j \in 1..(k - 1) :
        /\ WellFormed(type_specs[j])
        /\ CursorBefore(j) + Width(type_specs[j]) <= Len(data)

\* the Normal annotation of the Scalar token k
ScalarAnnotation(k) ==
    LET ts == TypeSpec_from_str(type_specs[k])
        at == CursorBefore(k)
    IN Annotation_new(at, size(ts.data_type),
           display_name(ts) \o <<":", Blank>>
               \o decode(ts.data_type, SubSeq(data, at + 1, at + size(ts.data_type)),
                         byte_order).text)

\* the Normal annotations of the Scalar tokens among tokens 1..k, in order
RECURSIVE NormalsUpTo(_)
NormalsUpTo(k) ==
    IF k = 0 THEN <<>>
    ELSE NormalsUpTo(k - 1)
         \o (IF ValidScalar(type_specs[k]) THEN <<ScalarAnnotation(k)>> ELSE <<>>)

\* build_annotations_from_types has returned
Compiled == result.status # "none"

ParseErrors == {"UnknownType", "FieldNameEmpty"}

-----------------------------------------------------------------------------
(* C2 *)

\* C2: when the buffer holds enough bytes for every token, compile returns one
\* Normal annotation per Scalar token and none per Skip token, in token
\* order, each of the type's size, at the sum of the widths of the tokens
\* before it, labelled "<display name>: <text decoded from those bytes>".
C2_OneNormalPerScalar ==
    (Compiled /\ PrefixFits(Len(type_specs) + 1))
        => /\ result.status = "Ok"
           /\ result.annotations = NormalsUpTo(Len(type_specs))

-----------------------------------------------------------------------------
(* C3 *)

\* C3: when a Scalar token needs more bytes than remain, compile returns the
\* Normal annotations of the tokens before it and then one Error annotation
\* at the cursor, as long as the bytes that remain, and an error as well.
C3_ErrorAnnotation ==
    \A k \in 1..Len(type_specs) :
        (/\ Compiled
         /\ PrefixFits(k)
         /\ ValidScalar(type_specs[k])
         /\ CursorBefore(k) + Width(type_specs[k]) > Len(data))
        => /\ result.error.what = "NotEnoughData"
           /\ Len(result.annotations) = Len(NormalsUpTo(k - 1)) + 1
           /\ SubSeq(result.annotations, 1, Len(NormalsUpTo(k - 1))) = NormalsUpTo(k - 1)
           /\ LET e == result.annotations[Len(result.annotations)]
              IN /\ e.kind = "Error"
                 /\ e.offset = CursorBefore(k)
                 /\ e.length = Len(data) - CursorBefore(k)

-----------------------------------------------------------------------------
(* C4 *)

FirstRejected ==
    CHOOSE m \in 1..Len(type_specs) :
        /\ ~TypeSpec_from_str(type_specs[m]).ok
        /\ \A j \in 1..(m - 1) : TypeSpec_from_str(type_specs[j]).ok

\* a token before the first rejected one does not have its bytes
ShortBeforeRejected ==
    \E j \in 1..(FirstRejected - 1) :
        CursorBefore(j) + Width(type_specs[j]) > Len(data)

-----------------------------------------------------------------------------
(* C5 *)

\* the dump of the whole buffer has been written
DumpWritten ==
    /\ out # <<>>
    /\ out[Len(out)].what = "end"
    /\ out[Len(out)].line_offset = Len(data)

\* C5: on a compiler error the program still writes the hex dump of all bytes
\* of the buffer, and reports the error only after the dump: when main has
\* returned the error, the dump is on the writer.
C5_DumpBeforeError ==
    pc = "failed" => DumpWritten

-----------------------------------------------------------------------------
(* C6 *)

\* C6: a valid Skip token whose bytes are in the buffer (also when it ends
\* exactly at the end of the buffer) does not fail the compile, leaves no
\* annotation on the bytes it skips, and the Scalar after it is decoded from
\* the bytes behind them.
C6_SkipAdvances ==
    \A k \in 1..Len(type_specs) :
        (/\ Compiled
         /\ PrefixFits(k + 1)
         /\ ValidSkip(type_specs[k]))
        => /\ ~(result.status = "Err" /\ result.error.token = type_specs[k])
           /\ \A n \in 1..Len(result.annotations) :
                 \/ result.annotations[n].offset + result.annotations[n].length
                        <= CursorBefore(k)
                 \/ result.annotations[n].offset >= CursorBefore(k + 1)
           /\ (k < Len(type_specs) /\ ValidScalar(type_specs[k + 1]) /\ PrefixFits(k + 2))
                 => \E n \in 1..Len(result.annotations) :
                        result.annotations[n] = ScalarAnnotation(k + 1)

-----------------------------------------------------------------------------
(* C7 *)

\* C7: a Skip token that would move the cursor past the end of the buffer
\* makes compile fail with the insufficient-data error and return no
\* annotation.
C7_SkipPastEnd ==
    \A k \in 1..Len(type_specs) :
        (/\ Compiled
         /\ PrefixFits(k)
         /\ ValidSkip(type_specs[k])
         /\ CursorBefore(k) + Width(type_specs[k]) > Len(data))
        => /\ result.status = "Err"
           /\ result.error.what = "NotEnoughData"
           /\ result.annotations = <<>>

-----------------------------------------------------------------------------
(* C8 *)

-----------------------------------------------------------------------------
(* C11 *)

Has(t, c) == \E i \in 1..Len(t) : t[i] = c

\* the offset of the last byte of an annotation of length >= 1
LastByte(a) == a.offset + a.length - 1

\* the annotation has bytes in more than one row
SpansRows(a) == a.length >= 1 /\ a.offset \div RowBytes < LastByte(a) \div RowBytes

\* line i lies under the row that holds the first byte of its annotation
OnFirstRow(i) == annotations[out[i].ann].offset >= out[i].line_offset

\* line i lies under the row that holds the last byte of its annotation
OnLastRow(i) ==
    LastByte(annotations[out[i].ann]) < out[i].line_offset + out[i].line_length

\* C11: an annotation that spans several rows is drawn on its first row with
\* an opening corner and no closing corner, on every row between with nothing
\* but an unbroken horizontal run, and on its last row with a closing corner
\* and no opening corner.
C11_SpanningRows ==
    \A i \in UnderlineLines :
        SpansRows(annotations[out[i].ann]) =>
            /\ (OnFirstRow(i) /\ ~OnLastRow(i)) =>
                  /\ Has(Drawn(i), CornerOpen)
                  /\ ~Has(Drawn(i), CornerClose)
            /\ (~OnFirstRow(i) /\ ~OnLastRow(i)) =>
                  /\ Trim(Drawn(i)) # <<>>
                  /\ \A c \in 1..Len(Trim(Drawn(i))) : Trim(Drawn(i))[c] = Bar
            /\ (~OnFirstRow(i) /\ OnLastRow(i)) =>
                  /\ Has(Drawn(i), CornerClose)
                  /\ ~Has(Drawn(i), CornerOpen)

\* an annotation inside the buffer drawn under three rows: first, middle, last
C11_Witness ==
    /\ pc = "done"
    /\ Len(annotations) = 1
    /\ SpansRows(annotations[1])
    /\ \E i \in UnderlineLines : \E j \in UnderlineLines : \E k \in UnderlineLines :
          /\ i < j /\ j < k
          /\ OnFirstRow(i) /\ ~OnLastRow(i)
          /\ ~OnFirstRow(j) /\ ~OnLastRow(j)
          /\ ~OnFirstRow(k) /\ OnLastRow(k)

-----------------------------------------------------------------------------
(* C12 *)

\* the text of line i ends with the label of its annotation
EndsWithLabel(i) ==
    LET l == annotations[out[i].ann].label
        t == out[i].text
    IN Len(t) >= Len(l) /\ SubSeq(t, Len(t) - Len(l) + 1, Len(t)) = l

\* the text of line i holds blanks and box glyphs only
GlyphsOnly(i) ==
    \A c \in 1..Len(out[i].text) :
        out[i].text[c] \in {Blank, Bar, CornerOpen, CornerClose}

\* the underline lines of annotation k that carry its label
LabelLinesOf(k) == {i \in UnderlineLines : out[i].ann = k /\ EndsWithLabel(i)}

\* the label of annotation k is written where it belongs and nowhere else
LabelPlaced(k) ==
    /\ \A i \in LabelLinesOf(k) :
          /\ out[i].line_offset <= annotations[k].offset
          /\ annotations[k].offset < out[i].line_offset + out[i].line_length
    /\ \A i \in UnderlineLines :
          (out[i].ann = k /\ i \notin LabelLinesOf(k)) => GlyphsOnly(i)

\* an annotation of length 0 whose offset is the first byte of a row
EmptyAtRowStart(a) == a.length = 0 /\ a.offset % RowBytes = 0

\* C12: the label of an annotation whose offset lies inside the buffer is
\* written exactly once in the whole dump, on the underline line under the row
\* that contains the offset; lines on continuation rows carry no label text.
C12_LabelOnce ==
    pc = "done" =>
        \A k \in 1..Len(annotations) :
            annotations[k].offset < Len(data) =>
                Cardinality(LabelLinesOf(k)) = 1 /\ LabelPlaced(k)

\* C12, amended: the same, except that an annotation of length 0 whose offset
\* is the first byte of a row is not drawn and its label is written nowhere.
C12_LabelOnceUnlessEmptyAtRowStart ==
    pc = "done" =>
        \A k \in 1..Len(annotations) :
            annotations[k].offset < Len(data) =>
                /\ Cardinality(LabelLinesOf(k)) =
                      (IF EmptyAtRowStart(annotations[k]) THEN 0 ELSE 1)
                /\ LabelPlaced(k)

\* one annotation with a continuation row and one empty annotation at the
\* first byte of the second row, both with their offset inside the buffer
C12_Witness ==
    /\ pc = "done"
    /\ Len(annotations) = 2
    /\ annotations[1].offset < Len(data) /\ annotations[2].offset < Len(data)
    /\ Cardinality(LabelLinesOf(1)) = 1
    /\ \E i \in UnderlineLines : out[i].ann = 1 /\ ~OnFirstRow(i) /\ GlyphsOnly(i)
    /\ EmptyAtRowStart(annotations[2]) /\ annotations[2].offset = RowBytes
    /\ LabelLinesOf(2) = {}

-----------------------------------------------------------------------------
(* C13 *)

RowLinesOf == {i \in 1..Len(out) : out[i].what = "row"}

\* the overlap of the claim: offset < row_end and offset + length > row_start
Overlaps(a, r) ==
    /\ a.offset < out[r].line_offset + out[r].line_length
    /\ a.offset + a.length > out[r].line_offset

\* the underline lines of annotation k between row line r and the next row line
LinesUnder(r, k) ==
    {i \in UnderlineLines :
        /\ out[i].ann = k
        /\ i > r
        /\ \A r2 \in RowLinesOf : r2 > r => r2 > i}

\* the pairs of a row and an annotation that overlaps it
OverlapPairs ==
    {p \in RowLinesOf \X (1..Len(annotations)) : Overlaps(annotations[p[2]], p[1])}

\* C13: under each hex row there is exactly one underline line for each
\* annotation that overlaps the row and none for any other annotation; the
\* dump has as many lines as rows, plus the rows each annotation overlaps,
\* plus one; an annotation that starts at or past the end of the buffer
\* produces no line and no label.
C13_OneLinePerOverlap ==
    pc = "done" =>
        /\ \A r \in RowLinesOf : \A k \in 1..Len(annotations) :
              Cardinality(LinesUnder(r, k)) =
                  (IF Overlaps(annotations[k], r) THEN 1 ELSE 0)
        /\ Len(out) = Cardinality(RowLinesOf) + Cardinality(OverlapPairs) + 1
        /\ \A k \in 1..Len(annotations) :
              annotations[k].offset >= Len(data) =>
                  \A i \in UnderlineLines :
                      out[i].ann # k /\ ~Has(out[i].text, annotations[k].label[1])

\* two rows; one annotation over both, one that starts at the end of the buffer
C13_Witness ==
    /\ pc = "done"
    /\ Len(annotations) = 2
    /\ Cardinality(RowLinesOf) = 2
    /\ \A r \in RowLinesOf : Cardinality(LinesUnder(r, 1)) = 1
    /\ annotations[2].offset >= Len(data) /\ annotations[2].length > 0
    /\ Len(out) = 5

-----------------------------------------------------------------------------
(* C14 *)

HexDigits == <<"0","1","2","3","4","5","6","7","8","9","a","b","c","d","e","f">>

IsHexText(t) == \A i \in 1..Len(t) : \E d \in 1..16 : HexDigits[d] = t[i]

\* the number a text of hexadecimal digits stands for
RECURSIVE HexValue(_)
HexValue(t) ==
    IF t = <<>> THEN 0
    ELSE HexValue(SubSeq(t, 1, Len(t) - 1)) * 16
         + (CHOOSE d \in 0..15 : HexDigits[d + 1] = t[Len(t)])

\* the number of bytes in the rows written before line i
RECURSIVE BytesBefore(_)
BytesBefore(i) ==
    IF i <= 1 THEN 0
    ELSE BytesBefore(i - 1)
         + (IF out[i - 1].what = "row" THEN out[i - 1].line_length ELSE 0)

\* the first 8 characters of line i are hexadecimal digits that stand for n
AddressIs(i, n) ==
    /\ Len(out[i].text) >= 8
    /\ IsHexText(SubSeq(out[i].text, 1, 8))
    /\ HexValue(SubSeq(out[i].text, 1, 8)) = n

\* C14: the dump ends with a line that holds only the total number of bytes
\* read as 8 hexadecimal digits; each row starts with the 8-digit count of the
\* bytes in all rows before it; for an empty buffer the output is the one line
\* 00000000.
C14_Addresses ==
    /\ \A r \in RowLinesOf : AddressIs(r, BytesBefore(r))
    /\ pc = "done" =>
          /\ out # <<>>
          /\ out[Len(out)].what = "end"
          /\ Len(out[Len(out)].text) = 8
          /\ AddressIs(Len(out), Len(data))
          /\ BytesBefore(Len(out)) = Len(data)
          /\ data = <<>> => Len(out) = 1 /\ out[1].text = [i \in 1..8 |-> "0"]

\* three rows, the third at address 00000020, and the end line 00000021
C14_Witness ==
    /\ pc = "done"
    /\ Cardinality(RowLinesOf) = 3
    /\ \E r \in RowLinesOf :
          SubSeq(out[r].text, 1, 8) = <<"0","0","0","0","0","0","2","0">>
    /\ out[Len(out)].text = <<"0","0","0","0","0","0","2","1">>

-----------------------------------------------------------------------------
(* C15 *)

\* annotation a has the byte at byte_offset in its range
Covers(a, byte_offset) == a.offset <= byte_offset /\ byte_offset < a.offset + a.length

\* C15: a byte that lies inside both a Normal and an Error annotation is
\* styled as Error, whatever the order in which the two were added.
C15_ErrorWins ==
    \A r \in RowLinesOf : \A i \in 1..out[r].line_length :
        LET byte_offset == out[r].line_offset + i - 1
        IN (/\ \E k \in 1..Len(annotations) :
                  annotations[k].kind = "Normal" /\ Covers(annotations[k], byte_offset)
            /\ \E k \in 1..Len(annotations) :
                  annotations[k].kind = "Error" /\ Covers(annotations[k], byte_offset))
           => out[r].styles[i] = "Error"

-----------------------------------------------------------------------------
(* C16 *)

-----------------------------------------------------------------------------
(* C17 *)

\* Numbers of any size, as decimal digits written least significant first;
\* the number 0 is the empty list.

RECURSIVE StripZeros(_)
StripZeros(d) ==
    IF d # <<>> /\ d[Len(d)] = 0 THEN StripZeros(SubSeq(d, 1, Len(d) - 1)) ELSE d

\* a times the small number m, plus carry
RECURSIVE BigTimes(_, _, _)
BigTimes(a, m, carry) ==
    IF a = <<>>
    THEN (IF carry = 0 THEN <<>> ELSE <<carry % 10>> \o BigTimes(<<>>, m, carry \div 10))
    ELSE LET v == Head(a) * m + carry
         IN <<v % 10>> \o BigTimes(Tail(a), m, v \div 10)

RECURSIVE BigPow256(_)
BigPow256(e) == IF e = 0 THEN <<1>> ELSE BigTimes(BigPow256(e - 1), 256, 0)

\* the powers 256^0 .. 256^8, and the most digits a number below 256^8 has
Powers256 == [e \in 0..8 |-> BigPow256(e)]
Columns == Len(Powers256[8])

DigitAt(d, j) == IF j <= Len(d) THEN d[j] ELSE 0

\* columns of any size to digits: the carries are passed upward from column j
RECURSIVE Carried(_, _, _)
Carried(cols, j, carry) ==
    IF j > Len(cols)
    THEN (IF carry = 0 THEN <<>> ELSE <<carry % 10>> \o Carried(cols, j, carry \div 10))
    ELSE <<(cols[j] + carry) % 10>> \o Carried(cols, j + 1, (cols[j] + carry) \div 10)

BigAdd(a, b) ==
    StripZeros(Carried([j \in 1..Columns |-> DigitAt(a, j) + DigitAt(b, j)], 1, 0))

\* the power of 256 that byte i of n bytes counts for
WeightOf(i, n, order) == IF order = "Little" THEN i - 1 ELSE n - i

\* column j of the sum over i..n of b[i] * 256^WeightOf(i)
RECURSIVE ColumnSum(_, _, _, _, _)
ColumnSum(b, i, n, order, j) ==
    IF i > n THEN 0
    ELSE b[i] * DigitAt(Powers256[WeightOf(i, n, order)], j)
         + ColumnSum(b, i + 1, n, order, j)

\* the sum over 1..n of b[i] * 256^WeightOf(i)
BigSum(b, n, order) ==
    StripZeros(Carried([j \in 1..Columns |-> ColumnSum(b, 1, n, order, j)], 1, 0))

\* a decimal text as written by to_string: digits only, no leading zero
IsDecimalText(t) ==
    /\ t # <<>>
    /\ \A i \in 1..Len(t) : IsDigit(t[i])
    /\ (t[1] = "0" => Len(t) = 1)

\* the number a decimal text stands for
DigitsOfText(t) == StripZeros([i \in 1..Len(t) |-> DigitValue(t[Len(t) + 1 - i])])

\* the most significant of the first n bytes
TopByte(b, n, order) == IF order = "Little" THEN b[n] ELSE b[1]

\* text is the decimal text of the integer of type t held in the first size(t)
\* bytes of b
TextIsValue(text, t, b, order) ==
    LET n == size(t)
        unsigned == BigSum(b, n, order)
    IN IF IsSigned(t) /\ TopByte(b, n, order) >= 128
       THEN /\ Len(text) >= 2 /\ text[1] = "-"
            /\ IsDecimalText(Tail(text))
            /\ BigAdd(DigitsOfText(Tail(text)), unsigned) = Powers256[n]
       ELSE /\ IsDecimalText(text)
            /\ DigitsOfText(text) = unsigned

\* C17: decode of an integer type reads the first size() bytes of its slice and
\* returns the decimal text of their value under the byte order: the sum of
\* byte[i] * 256^i (little endian) or byte[i] * 256^(size-1-i) (big endian),
\* less 2^(8*size) for a signed type whose most significant bit is set; the
\* bytes after the first size() do not change the result.
C17_IntegerValue ==
    (pc = "decoded" /\ Len(slice) >= size(data_type)) =>
        /\ decoded.ok
        /\ TextIsValue(decoded.text, data_type, slice, byte_order)
        /\ decoded = decode(data_type, SubSeq(slice, 1, size(data_type)), byte_order)

\* i32, big endian, of the bytes 80 00 00 00 followed by one more byte
C17_Witness ==
    /\ pc = "decoded"
    /\ data_type = "I32" /\ byte_order = "Big"
    /\ slice = <<128, 0, 0, 0, 255>>
    /\ decoded.ok
    /\ decoded.text = <<"-","2","1","4","7","4","8","3","6","4","8">>

-----------------------------------------------------------------------------
(* C18 *)

\* The byte encoding of a number given as decimal text, by long division.
\* Digits are written most significant first here.

DigitsMsb(t) == [i \in 1..Len(t) |-> DigitValue(t[i])]

\* one division by 256 of the digits d[i..], with the remainder so far
RECURSIVE DivideBy256(_, _, _, _)
DivideBy256(d, i, rem, quot) ==
    IF i > Len(d) THEN [quot |-> quot, rem |-> rem]
    ELSE DivideBy256(d, i + 1, (rem * 10 + d[i]) % 256,
                     Append(quot, (rem * 10 + d[i]) \div 256))

\* n divisions by 256: the n least significant bytes of the number, least
\* significant first, and the digits of what is left above them
RECURSIVE Division(_, _, _)
RECURSIVE DivisionAfter(_, _, _)
Division(d, n, low) ==
    IF n = 0 THEN [bytes |-> low, above |-> d]
    ELSE DivisionAfter(DivideBy256(d, 1, 0, <<>>), n, low)

DivisionAfter(r, n, low) == Division(r.quot, n - 1, Append(low, r.rem))

\* the number less one, for a number that is not 0
RECURSIVE LessOne(_, _)
LessOne(d, i) ==
    IF d[i] > 0 THEN [d EXCEPT ![i] = d[i] - 1]
    ELSE LessOne([d EXCEPT ![i] = 9], i - 1)

IsNegativeText(text) == text # <<>> /\ text[1] = "-"

\* the decimal text is written as to_string writes a value
IsValueText(text) ==
    IF IsNegativeText(text)
    THEN IsDecimalText(Tail(text)) /\ Tail(text) # <<"0">>
    ELSE IsDecimalText(text)

\* the number whose bytes encode the value: the value itself, or m - 1 for a
\* negative value -m, whose two's complement bytes are those of m - 1 inverted
EncodedNumber(text) ==
    IF IsNegativeText(text)
    THEN LessOne(DigitsMsb(Tail(text)), Len(text) - 1)
    ELSE DigitsMsb(text)

\* q is the division of the encoded number of a value of type t into size(t)
\* bytes: the value lies in the range of the type, and its encoding in the
\* byte order is the slice s
EncodesTo(q, negative, t, order, s) ==
    LET n == size(t)
    IN /\ \A i \in 1..Len(q.above) : q.above[i] = 0
       /\ negative => IsSigned(t)
       /\ IsSigned(t) => q.bytes[n] < 128
       /\ Len(s) = n
       /\ \A i \in 1..n :
             s[IF order = "Little" THEN i ELSE n + 1 - i]
                 = (IF negative THEN 255 - q.bytes[i] ELSE q.bytes[i])

\* text is the decimal text of a value of type t whose byte encoding is s
IsTextOfEncoded(text, t, order, s) ==
    /\ IsValueText(text)
    /\ EncodesTo(Division(EncodedNumber(text), size(t), <<>>),
                 IsNegativeText(text), t, order, s)

\* C18: decode round-trips and is a function of its inputs: the text it returns
\* for the size() bytes of a slice is the decimal text of a value of the type
\* whose byte encoding in that byte order is the slice, so decoding the
\* encoding of a value yields the text of that value; a second call with the
\* same inputs returns the same.
C18_RoundTrip ==
    (pc = "decoded" /\ Len(slice) = size(data_type)) =>
        /\ decoded.ok
        /\ IsTextOfEncoded(decoded.text, data_type, byte_order, slice)
        /\ decode(data_type, slice, byte_order) = decoded

\* the least value of i64, little endian
C18_Witness ==
    /\ pc = "decoded"
    /\ data_type = "I64" /\ byte_order = "Little"
    /\ slice = <<0, 0, 0, 0, 0, 0, 0, 128>>
    /\ decoded.text = <<"-","9","2","2","3","3","7","2","0","3","6",
                        "8","5","4","7","7","5","8","0","8">>
    /\ IsTextOfEncoded(decoded.text, data_type, byte_order, slice)

-----------------------------------------------------------------------------
(* C19 *)

DataTypes == IntegerTypes \cup {"F32", "F64"}

\* C19: decode fails with an error when its slice is shorter than size(); the
\* compiler never meets that error: on every path of compile, each call of
\* decode has a slice of exactly size() bytes that lies inside the buffer.
C19_DecodeNeverShort ==
    /\ \A t \in DataTypes : \A n \in 0..Len(data) :
          n < size(t) => ~decode(t, SubSeq(data, 1, n), byte_order).ok
    /\ Compiled =>
          /\ result.error.what # "NotEnoughBytes"
          /\ \A c \in 1..Len(result.decodes) :
                /\ result.decodes[c].to - result.decodes[c].from
                      = size(result.decodes[c].data_type)
                /\ 0 <= result.decodes[c].from
                /\ result.decodes[c].to <= Len(data)

\* a compile that called decode twice, for one byte and for two, and failed on
\* the next token for want of data
C19_Witness ==
    /\ pc = "failed"
    /\ result.error.what = "NotEnoughData"
    /\ Len(result.decodes) = 2
    /\ result.decodes[1] = [data_type |-> "U8", from |-> 0, to |-> 1]
    /\ result.decodes[2] = [data_type |-> "I16", from |-> 1, to |-> 3]
    /\ Len(data) = 3

-----------------------------------------------------------------------------
(* C20 *)

\* the position (from 1) of the first colon of a token, 0 when it has none
FirstColon(t) ==
    IF Has(t, ":")
    THEN CHOOSE i \in 1..Len(t) : t[i] = ":" /\ \A j \in 1..(i - 1) : t[j] # ":"
    ELSE 0

\* the text before the first colon, or the whole token
TypePart(t) == IF FirstColon(t) = 0 THEN t ELSE SubSeq(t, 1, FirstColon(t) - 1)

\* everything after the first colon
FieldPart(t) == SubSeq(t, FirstColon(t) + 1, Len(t))

EmptyField(t) == FirstColon(t) > 0 /\ FieldPart(t) = <<>>

\* a token whose type part names a type and whose field name, if any, is not
\* empty
GoodScalar(t) == DataType_from_str(TypePart(t)).ok /\ ~EmptyField(t)

TypeOf(t) == DataType_from_str(TypePart(t)).data_type

\* the field name where there is one, the name of the type otherwise
DisplayOf(t) == IF FirstColon(t) > 0 THEN FieldPart(t) ELSE name(TypeOf(t))

\* where the bytes of token k begin, all tokens before it good scalars
RECURSIVE StartOf(_)
StartOf(k) == IF k = 1 THEN 0 ELSE StartOf(k - 1) + size(TypeOf(type_specs[k - 1]))

\* C20: a Scalar token is split at its first colon: the text before it names
\* the type, everything after it, further colons included, is the field name;
\* the label of the annotation begins with the field name where there is one
\* and with the name of the type otherwise; an empty field name makes compile
\* fail.
C20_SplitAtFirstColon ==
    Compiled =>
        /\ (\E k \in 1..Len(type_specs) : EmptyField(type_specs[k]))
              => result.status = "Err"
        /\ (type_specs # <<>> /\ EmptyField(type_specs[1]))
              => result.error.what = "FieldNameEmpty"
        /\ (/\ \A k \in 1..Len(type_specs) : GoodScalar(type_specs[k])
            /\ StartOf(Len(type_specs) + 1) <= Len(data))
              => /\ result.status = "Ok"
                 /\ Len(result.annotations) = Len(type_specs)
                 /\ \A k \in 1..Len(type_specs) :
                       LET t == type_specs[k]
                           a == result.annotations[k]
                       IN /\ a.offset = StartOf(k)
                          /\ a.length = size(TypeOf(t))
                          /\ a.label = DisplayOf(t) \o <<":", Blank>>
                                \o decode(TypeOf(t),
                                          SubSeq(data, a.offset + 1, a.offset + a.length),
                                          byte_order).text

\* the tokens u8:a:b and I16 over three bytes, dumped: the first label is
\* "a:b: 1", the second begins with the name of the type
C20_Witness ==
    /\ pc = "done"
    /\ type_specs = <<<<"u","8",":","a",":","b">>, <<"I","1","6">>>>
    /\ result.status = "Ok"
    /\ result.annotations[1].label = <<"a",":","b",":"," ","1">>
    /\ SubSeq(result.annotations[2].label, 1, 5) = <<"i","1","6",":"," ">>
    /\ \E i \in UnderlineLines : out[i].ann = 1 /\ EndsWithLabel(i)

-----------------------------------------------------------------------------
(* types.rs: ByteOrder *)

\* ByteOrder::from_str that compares the text as it was given
ByteOrder_from_str_exact(s) ==
    IF s \in {<<"l","i","t","t","l","e">>, <<"l","e">>}
    THEN [ok |-> TRUE, byte_order |-> "Little", error |-> "none"]
    ELSE IF s \in {<<"b","i","g">>, <<"b","e">>}
    THEN [ok |-> TRUE, byte_order |-> "Big", error |-> "none"]
    ELSE [ok |-> FALSE, byte_order |-> "none", error |-> "InvalidByteOrder"]

\* Ok(ByteOrder) or Err("Invalid byte order: ...")
ByteOrder_from_str(s) ==
    LET l == to_lowercase(s)
    IN IF l = <<"l","i","t","t","l","e">> \/ l = <<"l","e">>
       THEN [ok |-> TRUE, byte_order |-> "Little", error |-> "none"]
       ELSE IF l = <<"b","i","g">> \/ l = <<"b","e">>
       THEN [ok |-> TRUE, byte_order |-> "Big", error |-> "none"]
       ELSE [ok |-> FALSE, byte_order |-> "none", error |-> "InvalidByteOrder"]

-----------------------------------------------------------------------------
(* main.rs: the byte order argument *)

\* every way of writing the letters of w in capitals or small letters
RECURSIVE CaseVariants(_)
CaseVariants(w) ==
    IF w = <<>> THEN {<<>>}
    ELSE LET c == w[Len(w)]
             C == IF \E k \in 1..26 : LowerCase[k] = c
                  THEN UpperCase[CHOOSE k \in 1..26 : LowerCase[k] = c]
                  ELSE c
         IN {Append(s, x) : s \in CaseVariants(SubSeq(w, 1, Len(w) - 1)),
                            x \in {c, C}}

\* texts that are none of the four names: empty, cut short, too long,
\* reversed, padded with blanks, other words
OtherOrders ==
    { <<>>, <<"l">>, <<"b">>, <<"e">>, <<"L">>, <<"B">>,
      <<"e","l">>, <<"e","b">>, <<"l","i">>, <<"b","i">>,
      <<"l","i","t">>, <<"l","i","t","t","l">>, <<"L","I","T","T","L">>,
      <<"l","i","t","t","l","e","e">>, <<"l","i","t","l","e">>,
      <<"b","i","g","g">>, <<"B","I","G","G">>, <<"b","i","g","e">>,
      <<" ","l","e">>, <<"l","e"," ">>, <<"b","e"," ">>, <<" ","b","i","g">>,
      <<"l","-","e">>, <<"n","a","t","i","v","e">>, <<"m","i","d","d","l","e">>,
      <<"1">>, <<"0">> }

OrderArgs ==
    CaseVariants(<<"l","i","t","t","l","e">>) \cup CaseVariants(<<"l","e">>)
    \cup CaseVariants(<<"b","i","g">>) \cup CaseVariants(<<"b","e">>)
    \cup OtherOrders

InitOrder ==
    /\ data = <<>>
    /\ type_specs = <<>>
    /\ byte_order = "none"
    /\ annotations = <<>>
    /\ result = NoResult
    /\ offset = 0
    /\ out = <<>>
    /\ data_type = "none"
    /\ slice = <<>>
    /\ decoded = NoDecoded
    /\ order_arg \in OrderArgs
    /\ main_out = <<>>
    /\ pc = "order"

\* `let byte_order = ByteOrder::from_str(&args.byte_order)?;`
parse_byte_order ==
    /\ pc = "order"
    /\ LET r == ByteOrder_from_str(order_arg)
       IN IF r.ok
          THEN /\ byte_order' = r.byte_order
               /\ result' = result
               /\ pc' = "parsed"
          ELSE /\ byte_order' = byte_order
               /\ result' = Err([what |-> r.error, token |-> order_arg,
                                 offset |-> 0, needs |-> 0, available |-> 0])
               /\ pc' = "failed"
    /\ UNCHANGED <<data, type_specs, annotations, offset, out,
                   data_type, slice, decoded, order_arg, main_out>>

NextOrder == parse_byte_order

SpecOrder == InitOrder /\ [][NextOrder]_vars

-----------------------------------------------------------------------------
(* C21 *)

\* s is the word w but for the case of its letters
SameWord(s, w) ==
    /\ Len(s) = Len(w)
    /\ \A i \in 1..Len(w) :
          \/ s[i] = w[i]
          \/ \E k \in 1..26 : LowerCase[k] = w[i] /\ UpperCase[k] = s[i]

\* C21: parsing the byte order gives Little for `little` and `le`, Big for
\* `big` and `be`, whatever the case of the letters, and fails with an
\* invalid-byte-order error for every other text.
C21_ByteOrderNames ==
    pc # "order" =>
        IF SameWord(order_arg, <<"l","i","t","t","l","e">>)
           \/ SameWord(order_arg, <<"l","e">>)
        THEN pc = "parsed" /\ byte_order = "Little"
        ELSE IF SameWord(order_arg, <<"b","i","g">>)
                \/ SameWord(order_arg, <<"b","e">>)
        THEN pc = "parsed" /\ byte_order = "Big"
        ELSE /\ pc = "failed"
             /\ result.status = "Err"
             /\ result.error.what = "InvalidByteOrder"
             /\ byte_order = "none"

\* `BE` was parsed and gave Big
C21_Witness ==
    /\ pc = "parsed"
    /\ order_arg = <<"B","E">>
    /\ byte_order = "Big"

-----------------------------------------------------------------------------
(* C22 *)

\* C22: an annotation of length 0 never renders: whatever the buffer and
\* the offset, the dump holds no underline line and no label for it.
C22_EmptyNeverRenders ==
    pc = "done" =>
        \A k \in 1..Len(annotations) :
            annotations[k].length = 0 =>
                /\ \A i \in UnderlineLines : out[i].ann # k
                /\ LabelLinesOf(k) = {}

-----------------------------------------------------------------------------
(* C23 *)

\* n bars
Bars(n) == [i \in 1..n |-> Bar]

\* an annotation of two or more bytes, all in one row and all in the buffer
InOneRow(a) ==
    /\ a.length >= 2
    /\ a.offset \div RowBytes = LastByte(a) \div RowBytes
    /\ a.offset + a.length <= Len(data)

\* annotation k is drawn on one line, as an opening corner, r bars and a
\* closing corner
DrawnAsRun(k, r) ==
    /\ Cardinality({i \in UnderlineLines : out[i].ann = k}) = 1
    /\ \A i \in UnderlineLines :
          out[i].ann = k =>
              Trim(Drawn(i)) = <<CornerOpen>> \o Bars(r) \o <<CornerClose>>

\* the annotation starts before in-row position 7 and holds the byte there
HoldsGap(a) ==
    /\ a.offset % RowBytes < GapCell
    /\ (a.offset % RowBytes) + a.length > GapCell

\* C23: an annotation of n >= 2 bytes inside one row is drawn as an opening
\* corner, an unbroken run of 3n-1 bars and a closing corner, wherever on the
\* row it starts.
C23_RunByByteCount ==
    pc = "done" =>
        \A k \in 1..Len(annotations) :
            InOneRow(annotations[k]) =>
                DrawnAsRun(k, 3 * annotations[k].length - 1)

\* C23, amended: the run has 3n-1 bars, and one more when the annotation
\* starts before in-row position 7 and holds the byte at position 7.
C23_RunByByteCountAndGap ==
    pc = "done" =>
        \A k \in 1..Len(annotations) :
            InOneRow(annotations[k]) =>
                DrawnAsRun(k, 3 * annotations[k].length - 1
                              + (IF HoldsGap(annotations[k]) THEN 1 ELSE 0))

\* three bytes from position 6 on, drawn with a run of nine bars
C23_Witness ==
    /\ pc = "done"
    /\ Len(annotations) = 1
    /\ annotations[1].offset = 6 /\ annotations[1].length = 3
    /\ InOneRow(annotations[1])
    /\ DrawnAsRun(1, 9)

-----------------------------------------------------------------------------
(* C24 *)

\* the columns of line i, counted from 1, that hold a closing corner
CornerColumns(i) == {c \in 1..Len(out[i].text) : out[i].text[c] = CornerClose}

\* the column, counted from 1, of the blank that follows the two hex digits
\* of the byte at in-row position j: the address and two blanks, three
\* columns for each byte before it, one more behind the gap, the two digits
BlankAfter(j) == 8 + 2 + 3 * j + (IF j > GapCell THEN 1 ELSE 0) + 2 + 1

\* the hex row above line i has two hex digits and a blank where the claim
\* looks for the byte at in-row position j
HexAt(i, j) ==
    \E r \in RowLinesOf :
        /\ out[r].line_offset = out[i].line_offset
        /\ out[r].text[BlankAfter(j)] = Blank
        /\ IsHexText(SubSeq(out[r].text, BlankAfter(j) - 2, BlankAfter(j) - 1))
        /\ out[r].text[BlankAfter(j) - 3] = Blank

\* the in-row position behind the last byte of the annotation of line i
EndCell(i) ==
    annotations[out[i].ann].offset + annotations[out[i].ann].length
        - out[i].line_offset

-----------------------------------------------------------------------------
(* C25 *)

\* the underline lines of annotation k under the row that starts at r
LinesOfUnder(k, r) ==
    {i \in UnderlineLines : out[i].ann = k /\ out[i].line_offset = r}

\* C25: annotations with the same offset are drawn in the order in which
\* they were added: under each row both overlap, the line of the one added
\* first comes before the line of the one added later.
C25_TiesInAddedOrder ==
    pc = "done" =>
        \A j \in 1..Len(annotations) : \A k \in 1..Len(annotations) :
            (j < k /\ annotations[j].offset = annotations[k].offset) =>
                \A r \in RowLinesOf :
                    \A i \in LinesOfUnder(j, out[r].line_offset) :
                        \A l \in LinesOfUnder(k, out[r].line_offset) : i < l

\* two annotations of different lengths at offset 15, both drawn under the
\* first row, and the longer one under the second row too
C25_Witness ==
    /\ pc = "done"
    /\ Len(annotations) = 2
    /\ annotations[1].offset = 15 /\ annotations[2].offset = 15
    /\ annotations[1].length = 2 /\ annotations[2].length = 1
    /\ \E i \in LinesOfUnder(1, 0) : \E l \in LinesOfUnder(2, 0) : i < l
    /\ LinesOfUnder(1, RowBytes) # {}

-----------------------------------------------------------------------------
(* C26 *)

\* the annotations of the list have offsets that do not decrease
OffsetsAscend(anns) ==
    \A i \in 1..Len(anns) : \A j \in 1..Len(anns) :
        i < j => anns[i].offset <= anns[j].offset

\* no byte lies in two annotations of the list
RangesDisjoint(anns) ==
    \A i \in 1..Len(anns) : \A j \in 1..Len(anns) :
        i < j => \/ anns[i].offset + anns[i].length <= anns[j].offset
                 \/ anns[j].offset + anns[j].length <= anns[i].offset

\* every annotation of the list ends inside a buffer of n bytes
RangesInside(anns, n) ==
    \A i \in 1..Len(anns) : anns[i].offset + anns[i].length <= n

\* the list holds at most one Error annotation, and only as its last element
ErrorOnlyLast(anns) ==
    \A i \in 1..Len(anns) : anns[i].kind = "Error" => i = Len(anns)

-----------------------------------------------------------------------------
(* C27 *)

\* the end of the annotation before number i of the list, 0 for the first
EndBefore(anns, i) ==
    IF i = 1 THEN 0 ELSE anns[i - 1].offset + anns[i - 1].length

\* a list as the compiler is said to emit it over a buffer of n bytes: Normal
\* annotations of one byte or more, one behind the other and inside the
\* buffer, and then at most one Error annotation that starts at the cursor
\* and is as long as the bytes that remain
EmittedList(anns, n) ==
    /\ ErrorOnlyLast(anns)
    /\ \A i \in 1..Len(anns) :
          /\ anns[i].offset >= EndBefore(anns, i)
          /\ IF anns[i].kind = "Error"
             THEN anns[i].offset <= n /\ anns[i].length = n - anns[i].offset
             ELSE anns[i].length >= 1 /\ anns[i].offset + anns[i].length <= n

\* C27: every annotation the compiler emits, Normal or Error, is shown when
\* the list is rendered over the same buffer: its label appears exactly once
\* in the dump, also the label of the Error annotation emitted when no byte
\* remains for the failing scalar.
C27_EmittedAreShown ==
    (pc = "done" /\ EmittedList(annotations, Len(data))) =>
        \A k \in 1..Len(annotations) : Cardinality(LabelLinesOf(k)) = 1

-----------------------------------------------------------------------------
(* C28 *)

\* the cells (line, column) of the lines of annotation k that hold glyph g
GlyphCells(k, g) ==
    {<<i, c>> \in UnderlineLines \X (1..80) :
        /\ out[i].ann = k
        /\ c <= Len(Drawn(i))
        /\ Drawn(i)[c] = g}

\* the row start of the row that holds byte b
RowOf(b) == (b \div RowBytes) * RowBytes

\* C28: over the whole dump an annotation of one byte or more that lies
\* inside the buffer has exactly one opening corner, under the row of its
\* first byte, and exactly one closing corner, under the row of its last
\* byte, also when that byte is at in-row position 15; an annotation whose
\* range runs past the end of the buffer has no closing corner on any row.
C28_OneCornerEach ==
    pc = "done" =>
        \A k \in 1..Len(annotations) :
            LET a == annotations[k]
            IN /\ (a.length >= 1 /\ a.offset + a.length <= Len(data)) =>
                     /\ Cardinality(GlyphCells(k, CornerOpen)) = 1
                     /\ Cardinality(GlyphCells(k, CornerClose)) = 1
                     /\ \A p \in GlyphCells(k, CornerOpen) :
                           out[p[1]].line_offset = RowOf(a.offset)
                     /\ \A p \in GlyphCells(k, CornerClose) :
                           out[p[1]].line_offset = RowOf(LastByte(a))
               /\ a.offset + a.length > Len(data) =>
                     GlyphCells(k, CornerClose) = {}

\* an annotation from the first row to position 15 of the second row, with
\* its opening corner under the first and its closing corner under the second
C28_Witness ==
    /\ pc = "done"
    /\ Len(annotations) = 1
    /\ annotations[1].offset = 3 /\ annotations[1].length = 29
    /\ Len(data) = 33
    /\ \E p \in GlyphCells(1, CornerOpen) : out[p[1]].line_offset = 0
    /\ \E p \in GlyphCells(1, CornerClose) : out[p[1]].line_offset = RowBytes

-----------------------------------------------------------------------------
(* dump over a reader whose read calls may return fewer bytes than asked *)

InitReader ==
    /\ data \in {Buffer(n) : n \in 0..MaxRead}
    /\ type_specs = <<>>
    /\ byte_order = "Little"
    /\ annotations = <<>>
    /\ result = NoResult
    /\ offset = 0
    /\ out = <<>>
    /\ data_type = "none"
    /\ slice = <<>>
    /\ decoded = NoDecoded
    /\ order_arg = <<>>
    /\ main_out = <<>>
    /\ pc = "ready"

\* One pass of the loop over any `R: Read`: Read::read returns Ok(n) with
\* 0 < n <= 16 for any n up to the bytes that are left; the pass writes a row
\* of the n bytes and adds n to offset.
read_row ==
    /\ pc = "dump"
    /\ \E bytes_read \in 1..ReadLength(data, offset) :
          /\ out' = out \o RowLines(annotations, data, offset, bytes_read)
          /\ offset' = offset + bytes_read
          /\ pc' \in IF \E k \in 1..Len(annotations) :
                          /\ InRow(k, annotations, offset, bytes_read)
                          /\ Underflows(annotations[k], offset, bytes_read)
                     THEN {"dump", "panicked"}
                     ELSE {"dump"}
    /\ UNCHANGED <<data, type_specs, byte_order, annotations, result,
                   data_type, slice, decoded, order_arg, main_out>>

NextReader == dump_begin \/ read_row \/ dump_end

SpecReader == InitReader /\ [][NextReader]_vars

-----------------------------------------------------------------------------
(* C29 *)

\* the last hex row of the dump
LastRow(r) == \A q \in RowLinesOf : q <= r

\* C29: every hex row but the last holds exactly 16 bytes and every row
\* address is a multiple of 16, however many bytes each read call of the
\* reader returns.
C29_FullRows ==
    pc = "done" =>
        \A r \in RowLinesOf :
            /\ out[r].line_offset % RowBytes = 0
            /\ AddressIs(r, out[r].line_offset)
            /\ ~LastRow(r) => out[r].line_length = RowBytes

-----------------------------------------------------------------------------
(* main.rs: Hexdump::print_annotation *)

main_start_in_line(a, line_offset) ==
    IF a.offset > line_offset THEN a.offset - line_offset ELSE 0

main_end_in_line(a, line_offset, line_length) ==
    IF a.offset + a.length < line_offset + line_length
    THEN a.offset + a.length - line_offset
    ELSE line_length

main_continues_from_prev(a, line_offset) == a.offset < line_offset

main_continues_to_next(a, line_offset, line_length) ==
    a.offset + a.length > line_offset + line_length

\* The text pushed for cell i by the if / else-if chain of the loop body of
\* main.rs.  The last cell of a range that closes behind cell 15 gets two
\* bars, not three, except where that cell is also the first of the row's
\* part of the range.
main_UnderlineCell(i, in_annotation, s, e, cfp, ctn) ==
    IF i = s THEN
        [text |-> IF i = e - 1
                  THEN (IF cfp THEN <<Bar, Bar, Bar>>
                        ELSE IF ctn THEN <<CornerOpen, Bar, Bar>>
                        ELSE <<CornerOpen, Bar, Bar>>)
                  ELSE (IF cfp THEN <<Bar, Bar, Bar>>
                        ELSE <<CornerOpen, Bar, Bar>>),
         in_annotation |-> TRUE, just_started |-> TRUE]
    ELSE IF i = e THEN
        [text |-> IF ~ctn THEN <<CornerClose, Blank>> ELSE <<Blank, Blank>>,
         in_annotation |-> FALSE, just_started |-> FALSE]
    ELSE IF i = e - 1 /\ in_annotation THEN
        [text |-> IF ctn THEN <<Bar, Bar, Bar>>
                  ELSE IF e = RowBytes THEN <<Bar, Bar>>
                  ELSE <<Bar, Bar, Bar>>,
         in_annotation |-> in_annotation, just_started |-> FALSE]
    ELSE IF in_annotation THEN
        [text |-> <<Bar, Bar, Bar>>,
         in_annotation |-> in_annotation, just_started |-> FALSE]
    ELSE
        [text |-> <<Blank, Blank, Blank>>,
         in_annotation |-> in_annotation, just_started |-> FALSE]

\* `if i == 7 && !just_started`
main_GapColumn(i, cell) ==
    IF i = GapCell /\ ~cell.just_started
    THEN (IF cell.in_annotation THEN <<Bar>> ELSE <<Blank>>)
    ELSE <<>>

RECURSIVE main_UnderlineLoop(_, _, _, _, _, _, _)
main_UnderlineLoop(i, underline, in_annotation, s, e, cfp, ctn) ==
    IF i = RowBytes THEN underline
    ELSE LET cell == main_UnderlineCell(i, in_annotation, s, e, cfp, ctn)
         IN main_UnderlineLoop(i + 1, underline \o cell.text \o main_GapColumn(i, cell),
                               cell.in_annotation, s, e, cfp, ctn)

\* the underline string as the loop leaves it
main_Underline(a, line_offset, line_length) ==
    main_UnderlineLoop(0, Spaces(9), FALSE,
                       main_start_in_line(a, line_offset),
                       main_end_in_line(a, line_offset, line_length),
                       main_continues_from_prev(a, line_offset),
                       main_continues_to_next(a, line_offset, line_length))

main_has_closing_at_16(a, line_offset, line_length) ==
    /\ main_end_in_line(a, line_offset, line_length) = 16
    /\ ~main_continues_to_next(a, line_offset, line_length)

target_column(a, line_offset, line_length) ==
    IF main_has_closing_at_16(a, line_offset, line_length)
    THEN LABEL_COLUMN - 1
    ELSE LABEL_COLUMN

main_padding(a, line_offset, line_length) ==
    LET display_width == Len(main_Underline(a, line_offset, line_length))
        target == target_column(a, line_offset, line_length)
    IN IF display_width < target THEN target - display_width ELSE 0

\* What print_annotation of main.rs writes: the underline, the closing corner
\* behind cell 15 where there is one, the padding, and on the row of the
\* offset a blank and the label.
main_print_annotation(k, a, line_offset, line_length) ==
    LET underline == main_Underline(a, line_offset, line_length)
        closed == IF main_has_closing_at_16(a, line_offset, line_length)
                  THEN underline \o <<CornerClose>>
                  ELSE underline
        padded == closed \o Spaces(main_padding(a, line_offset, line_length))
        labelled == a.offset >= line_offset /\ a.offset < line_offset + line_length
    IN [what |-> "underline",
        text |-> IF labelled THEN padded \o <<Blank>> \o a.label ELSE padded,
        ann |-> k,
        line_offset |-> line_offset,
        line_length |-> line_length]

-----------------------------------------------------------------------------
(* main.rs: Hexdump::dump *)

\* the hex row of main.rs: address, two blanks, sixteen cells, the gap
RECURSIVE main_HexCells(_, _, _, _)
main_HexCells(i, buf, line_offset, bytes_read) ==
    IF i = RowBytes THEN <<>>
    ELSE (IF i < bytes_read
          THEN Hex(buf[line_offset + i + 1], 2) \o <<Blank>>
          ELSE <<Blank, Blank, Blank>>)
         \o (IF i = GapCell THEN <<Blank>> ELSE <<>>)
         \o main_HexCells(i + 1, buf, line_offset, bytes_read)

main_HexRow(buf, line_offset, bytes_read) ==
    [what |-> "row",
     text |-> Hex(line_offset, 8) \o <<Blank, Blank>>
              \o main_HexCells(0, buf, line_offset, bytes_read),
     line_offset |-> line_offset,
     line_length |-> bytes_read]

\* the filter and the stable sort by offset
main_line_annotations(anns, line_offset, bytes_read) ==
    SortByOffsetFrom(1, OverlappingFrom(1, anns, line_offset, line_offset + bytes_read),
                     <<>>, anns)

main_RowLines(anns, buf, line_offset, bytes_read) ==
    LET ks == main_line_annotations(anns, line_offset, bytes_read)
    IN <<main_HexRow(buf, line_offset, bytes_read)>>
       \o [j \in 1..Len(ks) |->
              main_print_annotation(ks[j], anns[ks[j]], line_offset, bytes_read)]

-----------------------------------------------------------------------------
(* The same annotations and the same buffer dumped by display.rs and then
   by main.rs *)

\* the Hexdump of main.rs, holding the same annotations, starts its dump
\* when that of display.rs has returned
main_dump_begin ==
    /\ pc = "done"
    /\ offset' = 0
    /\ pc' = "main_dump"
    /\ UNCHANGED <<data, type_specs, byte_order, annotations, result, out,
                   data_type, slice, decoded, order_arg, main_out>>

\* one pass of the loop of main.rs with bytes_read > 0; a subtraction of
\* print_annotation that goes below zero may end it in a panic
main_dump_row ==
    /\ pc = "main_dump"
    /\ ReadLength(data, offset) > 0
    /\ LET bytes_read == ReadLength(data, offset)
       IN /\ main_out' = main_out \o main_RowLines(annotations, data, offset, bytes_read)
          /\ offset' = offset + bytes_read
          /\ pc' \in IF \E j \in 1..Len(main_line_annotations(annotations, offset, bytes_read)) :
                          main_end_in_line(
                              annotations[main_line_annotations(annotations, offset, bytes_read)[j]],
                              offset, bytes_read) < 1
                     THEN {"main_dump", "panicked"}
                     ELSE {"main_dump"}
    /\ UNCHANGED <<data, type_specs, byte_order, annotations, result, out,
                   data_type, slice, decoded, order_arg>>

\* bytes_read == 0: break, write the end address, return Ok
main_dump_end ==
    /\ pc = "main_dump"
    /\ ReadLength(data, offset) = 0
    /\ main_out' = Append(main_out, [what |-> "end", text |-> Hex(offset, 8),
                                     line_offset |-> offset])
    /\ pc' = "both_done"
    /\ UNCHANGED <<data, type_specs, byte_order, annotations, result, offset, out,
                   data_type, slice, decoded, order_arg>>

NextBoth ==
    \/ AddPair \/ dump_begin \/ dump_row \/ dump_end
    \/ main_dump_begin \/ main_dump_row \/ main_dump_end

SpecBoth == InitPair /\ [][NextBoth]_vars

-----------------------------------------------------------------------------
(* C30 *)

\* the text of the lines of a dump
TextOf(lines) == [i \in 1..Len(lines) |-> lines[i].text]

\* C30: with colors disabled the two renderers agree: for every buffer and
\* every list of Normal annotations, Hexdump::dump of main.rs and
\* Hexdump::dump of display.rs write the same text, also for annotations
\* whose last byte is at in-row position 15.
C30_RenderersAgree ==
    pc = "both_done" => TextOf(main_out) = TextOf(out)

====
